---- MODULE Spec2Model ----
(***************************************************************************)
(* Model of video_transcriber.py: the command-line front end (main), the   *)
(* pipeline driver (process_video_folder) and the helpers it calls         *)
(* (get_video_duration, extract_audio_from_video, transcribe_audio,        *)
(* seconds_to_minutes).                                                    *)
(*                                                                         *)
(* Representation.                                                         *)
(*   - A file name is the sequence of its dot-separated parts:             *)
(*     "a.mp4" is <<"a","mp4">>, ".mp4" is <<"","mp4">>, "a" is <<"a">>.   *)
(*   - A text is a sequence of one-character strings.                      *)
(*   - A number of seconds or minutes is a rational [num, den]; a float    *)
(*     is a rational whose significand has FloatBits bits.                 *)
(*   - The formatted time column ("1.50") is its value in hundredths.      *)
(*   - A CSV row is <<"header", cells>> or <<"row", cells>>: the tag keeps  *)
(*     the header's cells (plain strings) apart from the cells of a data   *)
(*     row, which are a name, a number of hundredths and a text.           *)
(*   - The external tools and the speech model are the environment: each   *)
(*     call draws its outcome from the outcomes the call can have.         *)
(***************************************************************************)
EXTENDS Integers, Sequences, FiniteSets, TLC

\* ---------------------------------------------------------------- bounds
MaxEntries == 2      \* directory entries returned by os.listdir
MaxSegs == 2         \* segments in one result of model.transcribe
FloatBits == 10      \* bits of a float's significand (53 in the build)
MaxStartTicks == 1000   \* largest start the conversion is tried on, in 1/8 s

\* ------------------------------------------------------- input domains
\* names a directory of the main specification may hold
DirNames ==
    { <<"a", "mp4">>, <<"a", "mov">>, <<"b", "MOV">>, <<"c", "Mp4">>, <<"d", "txt">> }

Whitespace == {" ", "\t"}

\* segments the speech model may return in the main specification
ModelSegments ==
    { [start |-> [num |-> 0, den |-> 1],    end |-> [num |-> 2, den |-> 1],   text |-> <<>>],
      [start |-> [num |-> 3, den |-> 1],    end |-> [num |-> 4, den |-> 1],   text |-> <<" ", "\t">>],
      [start |-> [num |-> 903, den |-> 10], end |-> [num |-> 95, den |-> 1],  text |-> <<"h", "i">>],
      [start |-> [num |-> 125, den |-> 1],  end |-> [num |-> 130, den |-> 1], text |-> <<" ", "o", " ", "k", "\t">>] }

\* durations ffprobe may print, in seconds
Durations == { [num |-> 0, den |-> 1], [num |-> 5, den |-> 1] }

\* what may already be stored at the output path when the run starts
OldCsv == [exists |-> TRUE, rows |-> << <<"row", << <<"old", "mp4">>, 0, <<"x">> >> >> >>]
NoCsv == [exists |-> FALSE, rows |-> << >>]

\* --------------------------------------------------------------- helpers
SeqsUpTo(S, n) == UNION { [1..k -> S] : k \in 0..n }

Range(s) == { s[k] : k \in 1..Len(s) }

\* sequences of pairwise distinct elements of S, at most n long
DistinctSeqs(S, n) == { s \in SeqsUpTo(S, n) : Cardinality(Range(s)) = Len(s) }

\* ------------------------------------------------- pure functions (code)
\* pathlib's Path(file).suffix: the text from the last dot on, provided the
\* dot is neither the first nor the last character of the name; otherwise ''
Suffix(name) ==
    LET n == Len(name) IN
    IF n >= 2 /\ (n > 2 \/ name[1] # "") /\ name[n] # ""
    THEN <<"", name[n]>>
    ELSE <<"">>

\* pathlib's Path(file).stem: the name without its suffix
Stem(name) ==
    IF Suffix(name) = <<"">> THEN name ELSE SubSeq(name, 1, Len(name) - 1)

\* the audio file extract_audio_from_video writes: <stem>.wav in the scratch dir
AudioPath(name) == Stem(name) \o <<"wav">>

\* video_extensions without the upper-case spellings
video_extensions_LowerOnly == { <<"", "mov">>, <<"", "mp4">> }

video_extensions ==
    { <<"", "mov">>, <<"", "mp4">>, <<"", "MOV">>, <<"", "MP4">> }

\* the scan loop: entries whose suffix is in video_extensions, in listing order
RECURSIVE ScanFolder(_)
ScanFolder(listing) ==
    IF listing = << >> THEN << >>
    ELSE IF Suffix(Head(listing)) \in video_extensions
         THEN <<Head(listing)>> \o ScanFolder(Tail(listing))
         ELSE ScanFolder(Tail(listing))

RECURSIVE LStrip(_)
LStrip(t) ==
    IF t = << >> THEN << >>
    ELSE IF Head(t) \in Whitespace THEN LStrip(Tail(t)) ELSE t

RECURSIVE RStrip(_)
RStrip(t) ==
    IF t = << >> THEN << >>
    ELSE IF t[Len(t)] \in Whitespace THEN RStrip(SubSeq(t, 1, Len(t) - 1)) ELSE t

\* Strip that removes leading whitespace only (str.lstrip())
Strip_LeftOnly(t) == LStrip(t)

\* str.strip()
Strip(t) == RStrip(LStrip(t))

\* the segment loop of transcribe_audio: (start, end, stripped text) of every
\* segment whose stripped text is non-empty, in the order of the result
RECURSIVE FilterSegments(_)
FilterSegments(raw) ==
    IF raw = << >> THEN << >>
    ELSE LET seg == Head(raw)
             text == Strip(seg.text)
         IN  IF text # << >>
             THEN << <<seg.start, seg.end, text>> >> \o FilterSegments(Tail(raw))
             ELSE FilterSegments(Tail(raw))

\* transcribe_audio: the filtered segments of the result of model.transcribe,
\* or [] when anything inside the try block raised
transcribe_audio(outcome) ==
    IF outcome.kind = "ok" THEN FilterSegments(outcome.segments) ELSE << >>

RECURSIVE Pow2(_)
Pow2(n) == IF n = 0 THEN 1 ELSE 2 * Pow2(n - 1)

\* the significands of the floats are FloatLow .. FloatTop - 1
FloatTop == Pow2(FloatBits)
FloatLow == Pow2(FloatBits - 1)

\* the positive num/den scaled by the power of two that gives its integer
\* part exactly FloatBits bits; e is the exponent taken out
RECURSIVE Normalise(_, _, _)
Normalise(num, den, e) ==
    IF num >= den * FloatTop THEN Normalise(num, 2 * den, e + 1)
    ELSE IF num < den * FloatLow THEN Normalise(2 * num, den, e - 1)
    ELSE [num |-> num, den |-> den, e |-> e]

\* the float nearest to the non-negative num/den: the significand rounded to
\* FloatBits bits, a tie to the even significand
RoundFloat(x) ==
    IF x.num = 0 THEN [num |-> 0, den |-> 1]
    ELSE LET n == Normalise(x.num, x.den, 0)
             q == n.num \div n.den
             r == n.num % n.den
             m == IF 2 * r > n.den THEN q + 1
                  ELSE IF 2 * r < n.den THEN q
                  ELSE IF q % 2 = 0 THEN q ELSE q + 1
         IN  IF n.e >= 0
             THEN [num |-> m * Pow2(n.e), den |-> 1]
             ELSE [num |-> m, den |-> Pow2(0 - n.e)]

\* return seconds / 60.0: the float nearest to the quotient
seconds_to_minutes(seconds) ==
    RoundFloat([num |-> seconds.num, den |-> seconds.den * 60])

\* f"{x:.2f}" cutting the digits after the second decimal off
Format2_Truncate(x) == (100 * x.num) \div x.den

\* f"{x:.2f}": x in hundredths, rounded to nearest, a tie to the even neighbour
Format2(x) ==
    LET q == (100 * x.num) \div x.den
        r == (100 * x.num) % x.den
    IN  IF 2 * r > x.den THEN q + 1
        ELSE IF 2 * r < x.den THEN q
        ELSE IF q % 2 = 0 THEN q ELSE q + 1

\* writer.writerow(['File Name', 'Time (mins)', 'Transcribed Text'])
Header == <<"header", <<"File Name", "Time (mins)", "Transcribed Text">> >>

\* the row written for one element of segments:
\* [video_name, f"{seconds_to_minutes(start_time):.2f}", text]
Row(name, segment) ==
    <<"row", <<name, Format2(seconds_to_minutes(segment[1])), segment[3]>> >>

\* ------------------------------------------------ environment outcomes
Zero == [num |-> 0, den |-> 1]

\* subprocess.run(["ffprobe", ...], check=True) and float(stdout): without the
\* tool on PATH the call raises FileNotFoundError
ProbeOutcomes(present) ==
    IF present
    THEN { [kind |-> "CalledProcessError"], [kind |-> "ValueError"] }
         \cup { [kind |-> "ok", duration |-> d] : d \in Durations }
    ELSE { [kind |-> "FileNotFoundError"] }

\* get_video_duration: the parsed duration; 0.0 for the two exceptions it
\* catches; any other exception leaves the function
get_video_duration(outcome) ==
    IF outcome.kind = "ok"
    THEN [raises |-> FALSE, value |-> outcome.duration]
    ELSE IF outcome.kind \in {"CalledProcessError", "ValueError"}
         THEN [raises |-> FALSE, value |-> Zero]
         ELSE [raises |-> TRUE, value |-> Zero]

\* subprocess.run(["ffmpeg", ...], check=True): a failing ffmpeg may or may not
\* leave a partly written output file behind
ExtractOutcomes(present) ==
    IF present
    THEN { [kind |-> "ok", written |-> TRUE],
           [kind |-> "CalledProcessError", written |-> FALSE],
           [kind |-> "CalledProcessError", written |-> TRUE] }
    ELSE { [kind |-> "FileNotFoundError", written |-> FALSE] }

\* no audio path (None); every file name has at least one part
None == << >>

\* extract_audio_from_video: the audio path; None for the exception it
\* catches; any other exception leaves the function
extract_audio_from_video(name, outcome) ==
    IF outcome.kind = "ok"
    THEN [raises |-> FALSE, value |-> AudioPath(name)]
    ELSE IF outcome.kind = "CalledProcessError"
         THEN [raises |-> FALSE, value |-> None]
         ELSE [raises |-> TRUE, value |-> None]

\* model.transcribe(audio_path, **options): a result with segments, or an exception
ModelOutcomes ==
    { [kind |-> "Exception", segments |-> << >>] }
    \cup { [kind |-> "ok", segments |-> r] : r \in SeqsUpTo(ModelSegments, MaxSegs) }

NoOutcome == [kind |-> "none", segments |-> << >>]

\* language=None
NoLanguage == "None"

\* LanguageCode with the "en" branch assigning the code of the "th" branch
LanguageCode_CopyPaste(choice) ==
    IF choice = "th" THEN "th"
    ELSE IF choice = "en" THEN "th"
    ELSE NoLanguage

\* main: language_code = None; "th" -> "th", "en" -> "en", "auto" stays None
LanguageCode(choice) ==
    IF choice = "th" THEN "th"
    ELSE IF choice = "en" THEN "en"
    ELSE NoLanguage

\* transcribe_audio: transcribe_options = {"word_timestamps": True}, and
\* ["language"] = language "if language:"
TranscribeOptions(lang) ==
    IF lang # NoLanguage
    THEN [word_timestamps |-> TRUE, language |-> lang]
    ELSE [word_timestamps |-> TRUE]

\* ------------------------------------------------------------------ state
VARIABLES
    mode,          \* "cli": started through main; "lib": process_video_folder called directly
    ffmpeg,        \* ffmpeg is on PATH
    ffprobe,       \* ffprobe is on PATH
    isDir,         \* os.path.isdir(folder_path)
    dirEntries,    \* os.listdir(folder_path)
    csvFile,       \* what is stored at output_csv
    pc,            \* position in the program
    result,        \* "running", "returned", "SystemExit" or "raised"
    exitCode,      \* exit status of the process once it has ended, -1 before
    video_files,   \* the scan result
    model,         \* the loaded model handle, "none" before
    tempDir,       \* the scratch directory exists
    tempFiles,     \* audio files in the scratch directory
    csvOpen,       \* csvfile is open
    i,             \* index of the current file in video_files, 0 before the loop
    duration,      \* duration of the current file
    audio_path,    \* audio_path of the current file
    segments,      \* segments of the current file
    k,             \* index in segments of the next row to write
    \* history
    scanCount,     \* calls of os.listdir
    loadCount,     \* calls of whisper.load_model
    openCount,     \* calls of open(output_csv, 'w')
    mkdtempCount,  \* scratch directories created
    visited,       \* indices of the files the loop has started, in order
    raisedAt,      \* stage whose exception ended the run, "none" otherwise
    rawResult,     \* outcome of model.transcribe for the current file
    csvAtStart,    \* what was stored at output_csv when the run started
    owed,          \* rows due for the model results so far, in order
    argLanguage,   \* args.language of main: "th", "en" or "auto"
    language,      \* language_code of main / language of process_video_folder
    modelCalls,    \* history: the (model, options) of the calls of model.transcribe
    stages,        \* history: the stages run for the current file, in order
    skipReasons,   \* history: the "Skipping ..." messages printed for the current file
    probeKind      \* history: outcome of the ffprobe call for the current file

vars ==
    << mode, ffmpeg, ffprobe, isDir, dirEntries, csvFile, pc, result, exitCode,
       video_files, model, tempDir, tempFiles, csvOpen, i, duration, audio_path,
       segments, k, scanCount, loadCount, openCount, mkdtempCount, visited,
       raisedAt, rawResult, csvAtStart, owed, argLanguage, language, modelCalls,
       stages, skipReasons, probeKind >>

envVars == << mode, ffmpeg, ffprobe, isDir, dirEntries, csvAtStart, argLanguage >>
stageVars == << stages, skipReasons, probeKind >>
fileVars == << duration, audio_path, segments, k, rawResult >>
countVars == << scanCount, loadCount, openCount, mkdtempCount >>

\* ------------------------------------------ what the output file is owed
\* (stated apart from the code's own filtering, for the history variable owed)
IsBlank(t) == \A j \in 1..Len(t) : t[j] \in Whitespace

SetMin(S) == CHOOSE x \in S : \A y \in S : x <= y
SetMax(S) == CHOOSE x \in S : \A y \in S : x >= y

\* t without its leading and trailing whitespace
Trimmed(t) ==
    LET solid == { j \in 1..Len(t) : t[j] \notin Whitespace }
    IN  IF solid = {} THEN << >> ELSE SubSeq(t, SetMin(solid), SetMax(solid))

KeepSpoken(seg) == ~IsBlank(seg.text)

\* the rows due for one outcome of the model on the file called name
DueRows(name, outcome) ==
    IF outcome.kind # "ok" THEN << >>
    ELSE LET spoken == SelectSeq(outcome.segments, KeepSpoken)
         IN  [ j \in 1..Len(spoken) |->
                 <<"row", <<name, Format2(seconds_to_minutes(spoken[j].start)),
                            Trimmed(spoken[j].text)>> >> ]

\* ---------------------------------------------------------------- initial
Listings(names) == DistinctSeqs(names, MaxEntries)

Init ==
    /\ mode \in {"cli", "lib"}
    /\ argLanguage = "auto"
    /\ language = NoLanguage
    /\ ffmpeg \in BOOLEAN
    /\ ffprobe \in BOOLEAN
    /\ isDir \in BOOLEAN
    /\ dirEntries \in Listings(DirNames)
    /\ (~isDir => dirEntries = << >>)
    /\ csvFile \in {NoCsv, OldCsv}
    /\ csvAtStart = csvFile
    /\ pc = IF mode = "cli" THEN "check_ffmpeg" ELSE "check_dir"
    /\ result = "running"
    /\ exitCode = -1
    /\ video_files = << >>
    /\ model = "none"
    /\ tempDir = FALSE
    /\ tempFiles = {}
    /\ csvOpen = FALSE
    /\ i = 0
    /\ duration = Zero
    /\ audio_path = None
    /\ segments = << >>
    /\ k = 0
    /\ scanCount = 0
    /\ loadCount = 0
    /\ openCount = 0
    /\ mkdtempCount = 0
    /\ visited = << >>
    /\ raisedAt = "none"
    /\ rawResult = NoOutcome
    /\ owed = << >>
    /\ modelCalls = {}
    /\ stages = << >>
    /\ skipReasons = {}
    /\ probeKind = "none"

\* ----------------------------------------------------------- ways to end
\* sys.exit(1)
SysExit ==
    /\ pc' = "done"
    /\ result' = "SystemExit"
    /\ exitCode' = 1

\* return from process_video_folder (and from main, when it was the caller)
Return ==
    /\ pc' = "done"
    /\ result' = "returned"
    /\ exitCode' = 0

\* ExitTempDir of a directory made with tempfile.mkdtemp() and never removed
ExitTempDir_Leak == UNCHANGED <<tempDir, tempFiles>>

\* leaving "with tempfile.TemporaryDirectory() as temp_dir": the directory and
\* everything in it is removed
ExitTempDir ==
    /\ tempDir' = FALSE
    /\ tempFiles' = {}

\* leaving "with open(output_csv, ...) as csvfile": the file is closed
ExitCsv == csvOpen' = FALSE

\* an exception nothing catches unwinds both with blocks and leaves
\* process_video_folder; an interpreter that gets it exits with status 1
Raise(stage) ==
    /\ pc' = "done"
    /\ result' = "raised"
    /\ exitCode' = 1
    /\ raisedAt' = stage
    /\ ExitCsv
    /\ ExitTempDir

\* ---------------------------------------------------------------- actions
\* main: args = parser.parse_args(), the conversion of args.language to
\* language_code, and subprocess.run(["ffmpeg", "-version"], check=True)
MainCheckFfmpeg ==
    /\ pc = "check_ffmpeg"
    /\ language' = LanguageCode(argLanguage)
    /\ IF ffmpeg
       THEN pc' = "check_ffprobe" /\ UNCHANGED <<result, exitCode>>
       ELSE SysExit
    /\ UNCHANGED << envVars, modelCalls, stageVars, csvFile, video_files, model, tempDir,
                    tempFiles, csvOpen, i, fileVars, countVars, visited, raisedAt, owed >>

\* main: subprocess.run(["ffprobe", "-version"], check=True), then the call of
\* process_video_folder
MainCheckFfprobe ==
    /\ pc = "check_ffprobe"
    /\ IF ffprobe
       THEN pc' = "check_dir" /\ UNCHANGED <<result, exitCode>>
       ELSE SysExit
    /\ UNCHANGED << envVars, language, modelCalls, stageVars, csvFile, video_files, model,
                    tempDir, tempFiles, csvOpen, i, fileVars, countVars, visited, raisedAt,
                    owed >>

\* CheckFolder with the sys.exit(1) left out after the error message
CheckFolder_NoExit ==
    /\ pc = "check_dir"
    /\ pc' = "scan"
    /\ UNCHANGED << envVars, language, modelCalls, stageVars, csvFile, result, exitCode,
                    video_files, model, tempDir, tempFiles, csvOpen, i, fileVars,
                    countVars, visited, raisedAt, owed >>

\* process_video_folder: if not os.path.isdir(folder_path): sys.exit(1)
CheckFolder ==
    /\ pc = "check_dir"
    /\ IF isDir
       THEN pc' = "scan" /\ UNCHANGED <<result, exitCode>>
       ELSE SysExit
    /\ UNCHANGED << envVars, language, modelCalls, stageVars, csvFile, video_files, model,
                    tempDir, tempFiles, csvOpen, i, fileVars, countVars, visited, raisedAt,
                    owed >>

\* Scan without the early return on an empty scan result
Scan_NoEarlyReturn ==
    /\ pc = "scan"
    /\ video_files' = ScanFolder(dirEntries)
    /\ scanCount' = scanCount + 1
    /\ pc' = "load_model"
    /\ UNCHANGED << envVars, language, modelCalls, stageVars, csvFile, result, exitCode,
                    model, tempDir, tempFiles, csvOpen, i, fileVars, loadCount, openCount,
                    mkdtempCount, visited, raisedAt, owed >>

\* the folder scan and "if not video_files: return"
Scan ==
    /\ pc = "scan"
    /\ video_files' = ScanFolder(dirEntries)
    /\ scanCount' = scanCount + 1
    /\ IF video_files' = << >>
       THEN Return
       ELSE pc' = "load_model" /\ UNCHANGED <<result, exitCode>>
    /\ UNCHANGED << envVars, language, modelCalls, stageVars, csvFile, model, tempDir,
                    tempFiles, csvOpen, i, fileVars, loadCount, openCount, mkdtempCount,
                    visited, raisedAt, owed >>

\* model = whisper.load_model(model_size); the call may raise
LoadModel ==
    /\ pc = "load_model"
    /\ loadCount' = loadCount + 1
    /\ \E ok \in BOOLEAN :
         IF ok
         THEN /\ model' = "loaded"
              /\ pc' = "mkdtemp"
              /\ UNCHANGED <<result, exitCode, raisedAt, csvOpen, tempDir, tempFiles>>
         ELSE /\ Raise("load_model")
              /\ UNCHANGED model
    /\ UNCHANGED << envVars, language, modelCalls, stageVars, csvFile, video_files, i,
                    fileVars, scanCount, openCount, mkdtempCount, visited, owed >>

\* with tempfile.TemporaryDirectory() as temp_dir
EnterTempDir ==
    /\ pc = "mkdtemp"
    /\ tempDir' = TRUE
    /\ tempFiles' = {}
    /\ mkdtempCount' = mkdtempCount + 1
    /\ pc' = "open_csv"
    /\ UNCHANGED << envVars, language, modelCalls, stageVars, csvFile, result, exitCode,
                    video_files, model, csvOpen, i, fileVars, scanCount, loadCount,
                    openCount, visited, raisedAt, owed >>

\* OpenCsv with the file opened in append mode ('a')
OpenCsv_Append ==
    /\ pc = "open_csv"
    /\ openCount' = openCount + 1
    /\ \E ok \in BOOLEAN :
         IF ok
         THEN /\ csvFile' = [exists |-> TRUE, rows |-> Append(csvFile.rows, Header)]
              /\ csvOpen' = TRUE
              /\ pc' = "loop"
              /\ UNCHANGED <<result, exitCode, raisedAt, tempDir, tempFiles>>
         ELSE /\ Raise("open_csv")
              /\ UNCHANGED csvFile
    /\ UNCHANGED << envVars, language, modelCalls, stageVars, video_files, model, i,
                    fileVars, scanCount, loadCount, mkdtempCount, visited, owed >>

\* with open(output_csv, 'w', ...) as csvfile, and the header row; open may raise
OpenCsv ==
    /\ pc = "open_csv"
    /\ openCount' = openCount + 1
    /\ \E ok \in BOOLEAN :
         IF ok
         THEN /\ csvFile' = [exists |-> TRUE, rows |-> <<Header>>]
              /\ csvOpen' = TRUE
              /\ pc' = "loop"
              /\ UNCHANGED <<result, exitCode, raisedAt, tempDir, tempFiles>>
         ELSE /\ Raise("open_csv")
              /\ UNCHANGED csvFile
    /\ UNCHANGED << envVars, language, modelCalls, stageVars, video_files, model, i,
                    fileVars, scanCount, loadCount, mkdtempCount, visited, owed >>

\* Path(video_path).name of the current file
video_name == video_files[i]

\* LoopHead with whisper.load_model moved into the loop body
LoopHead_LoadPerFile ==
    /\ pc = "loop"
    /\ IF i < Len(video_files)
       THEN /\ i' = i + 1
            /\ visited' = Append(visited, i + 1)
            /\ loadCount' = loadCount + 1
            /\ pc' = "probe"
            /\ duration' = Zero
            /\ audio_path' = None
            /\ segments' = << >>
            /\ k' = 0
            /\ rawResult' = NoOutcome
            /\ stages' = << >>
            /\ skipReasons' = {}
            /\ probeKind' = "none"
            /\ UNCHANGED <<result, exitCode, csvOpen, tempDir, tempFiles>>
       ELSE /\ ExitCsv
            /\ ExitTempDir
            /\ Return
            /\ UNCHANGED <<i, visited, fileVars, stageVars, loadCount>>
    /\ UNCHANGED << envVars, language, modelCalls, csvFile, video_files, model,
                    scanCount, openCount, mkdtempCount, raisedAt, owed >>

\* for i, video_path in enumerate(video_files, 1): the next file, or the end
\* of the loop, of both with blocks and of the function.  The locals of the
\* previous iteration are dead here (each is assigned before it is read) and
\* are cleared.
LoopHead ==
    /\ pc = "loop"
    /\ IF i < Len(video_files)
       THEN /\ i' = i + 1
            /\ visited' = Append(visited, i + 1)
            /\ pc' = "probe"
            /\ duration' = Zero
            /\ audio_path' = None
            /\ segments' = << >>
            /\ k' = 0
            /\ rawResult' = NoOutcome
            /\ stages' = << >>
            /\ skipReasons' = {}
            /\ probeKind' = "none"
            /\ UNCHANGED <<result, exitCode, csvOpen, tempDir, tempFiles>>
       ELSE /\ ExitCsv
            /\ ExitTempDir
            /\ Return
            /\ UNCHANGED <<i, visited, fileVars, stageVars>>
    /\ UNCHANGED << envVars, language, modelCalls, csvFile, video_files, model, countVars,
                    raisedAt, owed >>

\* Probe skipping only when ffprobe failed, not on a reported 0.0
Probe_SkipOnFailureOnly ==
    /\ pc = "probe"
    /\ stages' = Append(stages, "probe")
    /\ \E outcome \in ProbeOutcomes(ffprobe) :
         LET r == get_video_duration(outcome) IN
         /\ probeKind' = outcome.kind
         /\ skipReasons' = IF ~r.raises /\ outcome.kind # "ok" THEN {"duration"} ELSE {}
         /\ IF r.raises
            THEN /\ Raise("probe")
                 /\ UNCHANGED duration
            ELSE /\ duration' = r.value
                 /\ pc' = IF outcome.kind # "ok" THEN "loop" ELSE "extract"
                 /\ UNCHANGED <<result, exitCode, raisedAt, csvOpen, tempDir, tempFiles>>
    /\ UNCHANGED << envVars, language, modelCalls, csvFile, video_files, model, i,
                    audio_path, segments, k, rawResult, countVars, visited, owed >>

\* duration = get_video_duration(video_path); if duration == 0: continue
Probe ==
    /\ pc = "probe"
    /\ stages' = Append(stages, "probe")
    /\ \E outcome \in ProbeOutcomes(ffprobe) :
         LET r == get_video_duration(outcome) IN
         /\ probeKind' = outcome.kind
         /\ skipReasons' = IF ~r.raises /\ r.value.num = 0 THEN {"duration"} ELSE {}
         /\ IF r.raises
            THEN /\ Raise("probe")
                 /\ UNCHANGED duration
            ELSE /\ duration' = r.value
                 /\ pc' = IF r.value.num = 0 THEN "loop" ELSE "extract"
                 /\ UNCHANGED <<result, exitCode, raisedAt, csvOpen, tempDir, tempFiles>>
    /\ UNCHANGED << envVars, language, modelCalls, csvFile, video_files, model, i,
                    audio_path, segments, k, rawResult, countVars, visited, owed >>

\* Extract without "if not audio_path: continue"
Extract_NoSkip ==
    /\ pc = "extract"
    /\ stages' = Append(stages, "extract")
    /\ \E outcome \in ExtractOutcomes(ffmpeg) :
         LET r == extract_audio_from_video(video_name, outcome) IN
         /\ skipReasons' = skipReasons
         /\ IF r.raises
            THEN /\ Raise("extract")
                 /\ UNCHANGED audio_path
            ELSE /\ audio_path' = r.value
                 /\ tempFiles' = IF outcome.written
                                 THEN tempFiles \cup {AudioPath(video_name)}
                                 ELSE tempFiles
                 /\ pc' = "transcribe"
                 /\ UNCHANGED <<result, exitCode, raisedAt, csvOpen, tempDir>>
    /\ UNCHANGED << envVars, language, modelCalls, probeKind, csvFile, video_files, model,
                    i, duration, segments, k, rawResult, countVars, visited, owed >>

\* audio_path = extract_audio_from_video(video_path, temp_dir);
\* if not audio_path: continue
Extract ==
    /\ pc = "extract"
    /\ stages' = Append(stages, "extract")
    /\ \E outcome \in ExtractOutcomes(ffmpeg) :
         LET r == extract_audio_from_video(video_name, outcome) IN
         /\ skipReasons' = IF ~r.raises /\ r.value = None
                           THEN skipReasons \cup {"audio"} ELSE skipReasons
         /\ IF r.raises
            THEN /\ Raise("extract")
                 /\ UNCHANGED audio_path
            ELSE /\ audio_path' = r.value
                 /\ tempFiles' = IF outcome.written
                                 THEN tempFiles \cup {AudioPath(video_name)}
                                 ELSE tempFiles
                 /\ pc' = IF r.value = None THEN "loop" ELSE "transcribe"
                 /\ UNCHANGED <<result, exitCode, raisedAt, csvOpen, tempDir>>
    /\ UNCHANGED << envVars, language, modelCalls, probeKind, csvFile, video_files, model,
                    i, duration, segments, k, rawResult, countVars, visited, owed >>

\* segments = transcribe_audio(audio_path, model, language); "if segments:"
\* chooses between the row loop and the message of the else branch
Transcribe ==
    /\ pc = "transcribe"
    /\ \E outcome \in ModelOutcomes :
         /\ rawResult' = outcome
         /\ segments' = transcribe_audio(outcome)
         /\ owed' = owed \o DueRows(video_name, outcome)
    /\ k' = 1
    /\ stages' = Append(stages, "transcribe")
    /\ modelCalls' = modelCalls \cup {[model |-> model, options |-> TranscribeOptions(language)]}
    /\ pc' = IF segments' # << >> THEN "write" ELSE "cleanup"
    /\ UNCHANGED << envVars, language, skipReasons, probeKind, csvFile, result, exitCode,
                    video_files, model, tempDir, tempFiles, csvOpen, i, duration,
                    audio_path, countVars, visited, raisedAt >>

\* one turn of "for start_time, end_time, text in segments": writer.writerow
\* of the row of segments[k]; the write may raise
WriteRow ==
    /\ pc = "write"
    /\ stages' = IF k = 1 THEN Append(stages, "write") ELSE stages
    /\ \E ok \in BOOLEAN :
         IF ok
         THEN /\ csvFile' = [csvFile EXCEPT !.rows = Append(@, Row(video_name, segments[k]))]
              /\ k' = k + 1
              /\ pc' = IF k = Len(segments) THEN "cleanup" ELSE "write"
              /\ UNCHANGED <<result, exitCode, raisedAt, csvOpen, tempDir, tempFiles>>
         ELSE /\ Raise("write")
              /\ UNCHANGED <<csvFile, k>>
    /\ UNCHANGED << envVars, language, modelCalls, skipReasons, probeKind, video_files,
                    model, i, duration, audio_path, segments, rawResult, countVars,
                    visited, owed >>

\* if os.path.exists(audio_path): os.remove(audio_path)
Cleanup ==
    /\ pc = "cleanup"
    /\ stages' = Append(stages, "cleanup")
    /\ tempFiles' = tempFiles \ {audio_path}
    /\ pc' = "loop"
    /\ UNCHANGED << envVars, language, modelCalls, skipReasons, probeKind, csvFile, result,
                    exitCode, video_files, model, tempDir, csvOpen, i, fileVars, countVars,
                    visited, raisedAt, owed >>

Next ==
    \/ MainCheckFfmpeg
    \/ MainCheckFfprobe
    \/ CheckFolder
    \/ Scan
    \/ LoadModel
    \/ EnterTempDir
    \/ OpenCsv
    \/ LoopHead
    \/ Probe
    \/ Extract
    \/ Transcribe
    \/ WriteRow
    \/ Cleanup

Spec == Init /\ [][Next]_vars

\* ------------------------------------------- the folder scan on its own
\* extensions of the entries the scan specification lists
ExtTokens == {"mp4", "MP4", "Mp4", "mP4", "mov", "MOV", "mOV", "Mov", "txt", "wav", ""}

\* names the scan specification lists: <stem>.<ext>, .<ext>, "a", "a.b.mp4", "a.mp4."
ScanNames ==
    ({ <<stem, ext>> : stem \in {"a", ""}, ext \in ExtTokens } \ { <<"", "">> })
    \cup { <<"a">>, <<"a", "b", "mp4">>, <<"a", "mp4", "">> }

\* process_video_folder called as a library on a directory of ScanNames
InitScan ==
    /\ mode = "lib"
    /\ argLanguage = "auto"
    /\ language = NoLanguage
    /\ ffmpeg = TRUE
    /\ ffprobe = TRUE
    /\ isDir = TRUE
    /\ dirEntries \in Listings(ScanNames)
    /\ csvFile = NoCsv
    /\ csvAtStart = csvFile
    /\ pc = "check_dir"
    /\ result = "running"
    /\ exitCode = -1
    /\ video_files = << >>
    /\ model = "none"
    /\ tempDir = FALSE
    /\ tempFiles = {}
    /\ csvOpen = FALSE
    /\ i = 0
    /\ duration = Zero
    /\ audio_path = None
    /\ segments = << >>
    /\ k = 0
    /\ scanCount = 0
    /\ loadCount = 0
    /\ openCount = 0
    /\ mkdtempCount = 0
    /\ visited = << >>
    /\ raisedAt = "none"
    /\ rawResult = NoOutcome
    /\ owed = << >>
    /\ modelCalls = {}
    /\ stages = << >>
    /\ skipReasons = {}
    /\ probeKind = "none"

\* the run up to the end of the scan
NextScan ==
    \/ CheckFolder
    \/ Scan

SpecScan == InitScan /\ [][NextScan]_vars

\* ------------------------------------------ the run under every language
\* main with each -l choice, and process_video_folder called as a library
\* with each language argument, on a directory of DirNames with both tools
\* installed
InitLang ==
    /\ mode \in {"cli", "lib"}
    /\ argLanguage \in {"th", "en", "auto"}
    /\ language \in {"th", "en", NoLanguage}
    /\ (mode = "cli" => language = NoLanguage)
    /\ (mode = "lib" => argLanguage = "auto")
    /\ ffmpeg = TRUE
    /\ ffprobe = TRUE
    /\ isDir = TRUE
    /\ dirEntries \in Listings(DirNames)
    /\ csvFile = NoCsv
    /\ csvAtStart = csvFile
    /\ pc = IF mode = "cli" THEN "check_ffmpeg" ELSE "check_dir"
    /\ result = "running"
    /\ exitCode = -1
    /\ video_files = << >>
    /\ model = "none"
    /\ tempDir = FALSE
    /\ tempFiles = {}
    /\ csvOpen = FALSE
    /\ i = 0
    /\ duration = Zero
    /\ audio_path = None
    /\ segments = << >>
    /\ k = 0
    /\ scanCount = 0
    /\ loadCount = 0
    /\ openCount = 0
    /\ mkdtempCount = 0
    /\ visited = << >>
    /\ raisedAt = "none"
    /\ rawResult = NoOutcome
    /\ owed = << >>
    /\ modelCalls = {}
    /\ stages = << >>
    /\ skipReasons = {}
    /\ probeKind = "none"

SpecLang == InitLang /\ [][Next]_vars

\* ------------------------------------------------- the time column alone
\* segment starts the speech model may report: the floats n/8 seconds
StartTimes == { [num |-> n, den |-> 8] : n \in 0..MaxStartTicks }

\* process_video_folder on a folder holding a.mp4, at the row loop of that
\* file: the header is written, the audio extracted and transcribe_audio has
\* returned one segment, which starts at any of StartTimes
InitTime ==
    /\ mode = "lib"
    /\ argLanguage = "auto"
    /\ language = NoLanguage
    /\ ffmpeg = TRUE
    /\ ffprobe = TRUE
    /\ isDir = TRUE
    /\ dirEntries = << <<"a", "mp4">> >>
    /\ csvAtStart = NoCsv
    /\ csvFile = [exists |-> TRUE, rows |-> <<Header>>]
    /\ pc = "write"
    /\ result = "running"
    /\ exitCode = -1
    /\ video_files = ScanFolder(dirEntries)
    /\ model = "loaded"
    /\ tempDir = TRUE
    /\ tempFiles = {AudioPath(<<"a", "mp4">>)}
    /\ csvOpen = TRUE
    /\ i = 1
    /\ duration \in Durations \ {Zero}
    /\ audio_path = AudioPath(<<"a", "mp4">>)
    /\ \E start \in StartTimes :
         /\ rawResult = [kind |-> "ok",
                         segments |-> << [start |-> start,
                                          end |-> [num |-> start.num + 8, den |-> 8],
                                          text |-> <<"h", "i">>] >>]
         /\ segments = transcribe_audio(rawResult)
         /\ owed = DueRows(<<"a", "mp4">>, rawResult)
    /\ k = 1
    /\ scanCount = 1
    /\ loadCount = 1
    /\ openCount = 1
    /\ mkdtempCount = 1
    /\ visited = <<1>>
    /\ raisedAt = "none"
    /\ modelCalls = {[model |-> "loaded", options |-> TranscribeOptions(NoLanguage)]}
    /\ stages = <<"probe", "extract", "transcribe">>
    /\ skipReasons = {}
    /\ probeKind = "ok"

\* the row loop, the cleanup and the end of the run
NextTime ==
    \/ WriteRow
    \/ Cleanup
    \/ LoopHead

SpecTime == InitTime /\ [][NextTime]_vars

TypeOK ==
    /\ pc \in {"check_ffmpeg", "check_ffprobe", "check_dir", "scan", "load_model",
               "mkdtemp", "open_csv", "loop", "probe", "extract", "transcribe",
               "write", "cleanup", "done"}
    /\ result \in {"running", "returned", "SystemExit", "raised"}
    /\ i \in 0..Len(video_files)
    /\ (pc = "write" => k \in 1..Len(segments))

\* ================================================================ claims
IsPrefix(s, t) == Len(s) <= Len(t) /\ SubSeq(t, 1, Len(s)) = s

\* the run has ended
Ended == pc = "done"

\* the indices 1..N of the scanned files, in order
AllIndices == [ j \in 1..Len(video_files) |-> j ]

\* the output file has been opened (and so truncated) by this run
Opened == openCount > 0 /\ raisedAt # "open_csv"

\* the data rows of the output file
DataRows == Tail(csvFile.rows)

\* ---- C1
\* C1: a failure of one file (duration probe, audio extraction, transcription,
\* no segments) never halts the run: no exception of a per-file stage ends it,
\* a file that yielded no segments has no row in the CSV, and a run that got
\* past the scan returns after the loop has visited every file once, in order.
C1_PerFileFailureNeverHalts ==
    /\ raisedAt \notin {"probe", "extract", "transcribe"}
    /\ (Ended /\ video_files # << >> /\ raisedAt \notin {"load_model", "open_csv", "write"})
          => (result = "returned" /\ visited = AllIndices)
    /\ (pc = "loop" /\ i > 0 /\ segments = << >>)
          => \A j \in 1..Len(DataRows) : DataRows[j][2][1] # video_name

\* ---- C2
\* C2: when the scan finds no entry with an allowed extension the run has
\* returned normally with exit code 0, the output path holds what it held
\* before the run (nothing, or the old file), the output file was never
\* opened, and neither the model load, nor the scratch directory, nor any
\* per-file stage was executed.
C2_EmptyScanReturnsUntouched ==
    (scanCount > 0 /\ video_files = << >>)
        => /\ Ended
           /\ result = "returned"
           /\ exitCode = 0
           /\ openCount = 0
           /\ ~csvOpen
           /\ csvFile = csvAtStart
           /\ loadCount = 0
           /\ mkdtempCount = 0
           /\ visited = << >>
           /\ i = 0

\* a folder with entries, none of them a video, scanned with an old CSV at the output path
C2_Witness ==
    /\ scanCount > 0
    /\ dirEntries # << >>
    /\ video_files = << >>
    /\ csvFile = OldCsv
    /\ result = "returned"

\* ---- C3
\* a condition of the fatal tier holds: started through main without ffmpeg or
\* ffprobe, or the folder argument is not a directory
FatalCondition == (mode = "cli" /\ (~ffmpeg \/ ~ffprobe)) \/ ~isDir

\* C3: under a fatal condition the program never gets past the checks: the
\* folder is never scanned, the model never loaded, the scratch directory
\* never created, the output file never opened or changed, and once the run
\* has ended it has ended by sys.exit with a non-zero code.
C3_FatalAbortsBeforeSideEffects ==
    FatalCondition
        => /\ pc \in {"check_ffmpeg", "check_ffprobe", "check_dir", "done"}
           /\ scanCount = 0
           /\ loadCount = 0
           /\ mkdtempCount = 0
           /\ openCount = 0
           /\ csvFile = csvAtStart
           /\ video_files = << >>
           /\ (Ended => (result = "SystemExit" /\ exitCode # 0))

\* main has exited for a missing ffprobe although the folder holds videos
C3_Witness ==
    /\ mode = "cli"
    /\ ffmpeg /\ ~ffprobe
    /\ isDir
    /\ ScanFolder(dirEntries) # << >>
    /\ csvFile = OldCsv
    /\ result = "SystemExit"
    /\ exitCode = 1

\* ---- C4
\* position of a file name in the scan result
IndexOf(name) == CHOOSE j \in 1..Len(video_files) : video_files[j] = name

\* C4: once the output file has been opened its content is the header row,
\* once and first, followed by a prefix of the rows due for the model results
\* so far (all of them whenever no file is in the middle of its row loop), with
\* the rows' files in scan order; and every step that writes appends.
C4_CsvState ==
    Opened
        => /\ csvFile.exists
           /\ Len(csvFile.rows) >= 1
           /\ csvFile.rows[1] = Header
           /\ \A j \in 1..Len(DataRows) : DataRows[j][1] = "row"
           /\ IsPrefix(csvFile.rows, <<Header>> \o owed)
           /\ (pc \in {"loop", "probe", "extract", "transcribe", "cleanup"}
                 \/ (Ended /\ raisedAt = "none"))
                 => csvFile.rows = <<Header>> \o owed
           /\ (pc = "write") => Len(csvFile.rows) + (Len(segments) - k + 1) = 1 + Len(owed)
           /\ \A a, b \in 1..Len(DataRows) :
                 a < b => IndexOf(DataRows[a][2][1]) <= IndexOf(DataRows[b][2][1])

C4_AppendOnly ==
    (Opened /\ Opened') => IsPrefix(csvFile.rows, csvFile'.rows)

\* C4: in every state after the output file was opened its content is the
\* header, once and first, then the rows due so far in order (C4_CsvState),
\* and every step leaves the content written before in place (C4_AppendOnly).
C4_CsvHeaderThenRowsInOrder == [](C4_CsvState) /\ [][C4_AppendOnly]_vars

\* two files have both had two rows written, over an old CSV
C4_Witness ==
    /\ Opened
    /\ csvAtStart = OldCsv
    /\ i = 2
    /\ pc = "cleanup"
    /\ Len(csvFile.rows) = 5
    /\ csvFile.rows[2][2][1] = video_files[1]
    /\ csvFile.rows[4][2][1] = video_files[2]
    /\ csvFile.rows[2] # csvFile.rows[3]

\* ---- C5
\* the rows of the current file, in the order they stand in the output file
HasCurrentName(row) == row[2][1] = video_name
CurrentRows == SelectSeq(DataRows, HasCurrentName)

\* the segments of the current model result whose text is not all whitespace
Spoken == SelectSeq(rawResult.segments, KeepSpoken)

\* C5: no row carries a text that is empty or begins or ends with whitespace;
\* transcribe_audio returns one element per segment whose text is not all
\* whitespace, in order, with the text trimmed; and once the row loop of a
\* file is through, the file has exactly one row per such segment, carrying
\* the trimmed text.
C5_BlankSegmentsNeverWritten ==
    /\ Opened =>
         \A j \in 1..Len(DataRows) :
            LET t == DataRows[j][2][3]
            IN  t # << >> /\ t[1] \notin Whitespace /\ t[Len(t)] \notin Whitespace
    /\ (pc \in {"write", "cleanup"} /\ rawResult.kind = "ok") =>
         /\ Len(segments) = Len(Spoken)
         /\ \A j \in 1..Len(Spoken) :
               /\ segments[j][1] = Spoken[j].start
               /\ segments[j][3] = Trimmed(Spoken[j].text)
    /\ (pc = "cleanup" /\ rawResult.kind = "ok") =>
         /\ Len(CurrentRows) = Len(Spoken)
         /\ \A j \in 1..Len(Spoken) : CurrentRows[j][2][3] = Trimmed(Spoken[j].text)

\* a result of one all-whitespace segment and one padded segment has been
\* written as the single row of the padded one
C5_Witness ==
    /\ pc = "cleanup"
    /\ rawResult.kind = "ok"
    /\ Len(rawResult.segments) = 2
    /\ rawResult.segments[1].text = <<" ", "\t">>
    /\ rawResult.segments[2].text = <<" ", "o", " ", "k", "\t">>
    /\ Len(CurrentRows) = 1
    /\ CurrentRows[1][2][3] = <<"o", " ", "k">>

\* ---- C6
\* C6: the scratch audio of a file is deleted at the end of the file's
\* processing on every exit path: whenever the loop is between two files, a
\* file has just begun, or the run has ended, the scratch directory holds no
\* audio file.
C6_ScratchAudioDeletedPerFile ==
    (pc \in {"loop", "probe"} \/ Ended) => tempFiles = {}

\* ---- C7
\* C7: the scratch directory is created at most once, only after a scan that
\* found files and after the model was loaded; it holds files only while it
\* exists; and when the run has ended (by return, sys.exit or an exception of
\* any stage) neither it nor anything in it exists.
C7_ScratchDirScoped ==
    /\ mkdtempCount <= 1
    /\ (mkdtempCount = 1 => (scanCount = 1 /\ video_files # << >> /\ model = "loaded"))
    /\ (tempDir => mkdtempCount = 1)
    /\ (tempFiles # {} => tempDir)
    /\ (pc \in {"open_csv", "loop", "probe", "extract", "transcribe", "write", "cleanup"}
          => (tempDir /\ mkdtempCount = 1))
    /\ (Ended => (~tempDir /\ tempFiles = {}))

\* the second file's row write raised while the first file's left-over audio
\* and its own audio were in the scratch directory, and the directory is gone
C7_Witness ==
    /\ Ended
    /\ raisedAt = "write"
    /\ mkdtempCount = 1
    /\ i = 2
    /\ audio_path # None
    /\ ~tempDir

\* ---- C8
\* C8: a library caller of process_video_folder gets SystemExit only for the
\* folder check, and no exception from duration probing, audio extraction or
\* transcription of any file.
C8_LibraryCallerSeesOnlyFatal ==
    mode = "lib" =>
        /\ (result = "SystemExit" => ~isDir)
        /\ (result = "raised" => raisedAt \notin {"probe", "extract", "transcribe"})

\* ---- C9
\* C9: get_video_duration never raises: the probe stage never ends the run by
\* an exception, and a file goes on to extraction only with a parsed, non-zero
\* duration.
C9_DurationNeverRaises ==
    /\ raisedAt # "probe"
    /\ (pc = "extract" => (duration \in Durations /\ duration.num # 0))

\* ---- C10
\* the extension of a name: the text after its last dot, when that dot is
\* neither the first nor the last character of the name
ExtensionOf(name) ==
    IF Len(name) = 1 THEN ""
    ELSE IF Len(name) = 2 /\ name[1] = "" THEN ""
    ELSE name[Len(name)]

Lower(ext) ==
    CASE ext \in {"mp4", "MP4", "Mp4", "mP4"} -> "mp4"
      [] ext \in {"mov", "MOV", "mOV", "Mov"} -> "mov"
      [] OTHER -> ext

IsVideoAnyCase(name) == Lower(ExtensionOf(name)) \in {"mov", "mp4"}

IsVideoExactSpelling(name) == ExtensionOf(name) \in {"mov", "mp4", "MOV", "MP4"}

\* C10 (as claimed): the scan selects an entry exactly when its extension is
\* mov or mp4 in any mix of upper and lower case.
C10_ScanCaseInsensitive ==
    scanCount > 0 => video_files = SelectSeq(dirEntries, IsVideoAnyCase)

\* C10 (amended): the scan selects, in listing order, exactly the entries whose
\* extension is spelled mov, mp4, MOV or MP4.
C10_ScanExactSpellings ==
    scanCount > 0 => video_files = SelectSeq(dirEntries, IsVideoExactSpelling)

\* a listing of a mixed-case and an upper-case video has been scanned and only
\* the upper-case one selected
C10_Witness ==
    /\ scanCount > 0
    /\ Len(dirEntries) = 2
    /\ ExtensionOf(dirEntries[1]) = "Mp4"
    /\ ExtensionOf(dirEntries[2]) = "MP4"
    /\ video_files = <<dirEntries[2]>>

\* ---- C11
\* the language hint the run is configured with: the -l choice of main unless
\* it is "auto", or the language argument of a library call
ConfiguredHint ==
    IF mode = "cli"
    THEN (IF argLanguage \in {"th", "en"} THEN argLanguage ELSE NoLanguage)
    ELSE language

\* a stage of the current file has run
HasRun(stage) == \E j \in 1..Len(stages) : stages[j] = stage

\* C11: every call of model.transcribe of the run asks for word timestamps and
\* carries the configured hint, th or en, as its language option, unchanged;
\* without a hint ("auto", or no language argument) no call carries a
\* language option; and every transcription stage has made such a call.
C11_LanguageHintVerbatim ==
    /\ \A call \in modelCalls :
          /\ call.options.word_timestamps = TRUE
          /\ IF ConfiguredHint \in {"th", "en"}
             THEN /\ "language" \in DOMAIN call.options
                  /\ call.options.language = ConfiguredHint
             ELSE "language" \notin DOMAIN call.options
    /\ (HasRun("transcribe") => modelCalls # {})

\* main was started with -l en and the second file has been transcribed with
\* language "en"
C11_Witness ==
    /\ mode = "cli"
    /\ argLanguage = "en"
    /\ i = 2
    /\ HasRun("transcribe")
    /\ modelCalls = {[model |-> "loaded",
                      options |-> [word_timestamps |-> TRUE, language |-> "en"]]}

\* ---- C12
\* the time cell h, in hundredths of a minute, is within 0.005 of start / 60:
\* |h/100 - num/(60 den)| <= 1/200, with the denominators multiplied out
WithinHalfHundredth(h, start) ==
    LET d == 60 * start.den * h - 100 * start.num
    IN  (IF d >= 0 THEN d ELSE 0 - d) <= 30 * start.den

\* the same with the rounding of the float division, at most start / 60 times
\* 2^-FloatBits, added to the 0.005
WithinHalfHundredthAndDivision(h, start) ==
    LET d == 60 * start.den * h - 100 * start.num
    IN  (IF d >= 0 THEN d ELSE 0 - d) * FloatTop
           <= 30 * start.den * FloatTop + 100 * start.num

C13_ModelLoadedOnce ==
    /\ loadCount <= 1
    /\ (loadCount = 1) => (isDir /\ scanCount = 1 /\ video_files # << >>)
    /\ (mkdtempCount > 0 \/ openCount > 0 \/ i > 0 \/ stages # << >>)
          => (loadCount = 1 /\ model = "loaded")
    /\ (Ended /\ (~isDir \/ video_files = << >>))
          => (loadCount = 0 /\ model = "none")
    /\ (Ended /\ result = "returned" /\ video_files # << >>) => loadCount = 1
    /\ \A call \in modelCalls : call.model = model /\ model = "loaded"
    /\ Cardinality({ call.model : call \in modelCalls }) <= 1

\* the run has returned after transcribing with the model it loaded once,
\* having visited two files
C13_Witness ==
    /\ Ended
    /\ result = "returned"
    /\ Len(video_files) = 2
    /\ visited = <<1, 2>>
    /\ loadCount = 1
    /\ modelCalls # {}

\* ---- C14
\* the stages of one file, with and without rows to write
AllStages == <<"probe", "extract", "transcribe", "write", "cleanup">>
StagesNoRows == <<"probe", "extract", "transcribe", "cleanup">>

\* the processing of the current file is over: it was skipped, or cleaned up
FileEnded ==
    \/ skipReasons # {}
    \/ (stages # << >> /\ stages[Len(stages)] = "cleanup")

\* the stages of the current file ran in order, each one behind its gate; a
\* skipped file has one reason, stopped at the stage that failed and has no row
C14_StagesGated ==
    /\ IsPrefix(stages, AllStages) \/ IsPrefix(stages, StagesNoRows)
    /\ HasRun("extract") => (probeKind = "ok" /\ duration.num # 0)
    /\ HasRun("transcribe") => audio_path # None
    /\ HasRun("write") => segments # << >>
    /\ (HasRun("cleanup") /\ ~HasRun("write")) => segments = << >>
    /\ Cardinality(skipReasons) <= 1
    /\ ("duration" \in skipReasons) => stages = <<"probe">>
    /\ ("audio" \in skipReasons) => stages = <<"probe", "extract">>
    /\ (skipReasons # {}) => (pc \in {"loop", "done"} /\ CurrentRows = << >>)
    /\ (pc = "probe") => stages = << >>

\* the loop moves on by one file, and only from a file whose processing is over
C14_NextFileAfterEnd ==
    (i' # i) => (i' = i + 1 /\ pc = "loop" /\ pc' = "probe" /\ (i = 0 \/ FileEnded))

\* C14: for each file the stages run in the order probe, extract, transcribe,
\* write, cleanup: extraction only after a probe that returned a duration,
\* transcription only with an audio path, rows only for a non-empty list of
\* segments; a file is never skipped for both a failed probe and a failed
\* extraction; and no stage of the next file starts before the current file
\* was skipped or cleaned up.
C14_StagesInOrder == []C14_StagesGated /\ [][C14_NextFileAfterEnd]_vars

\* the second file was skipped at the extraction, after a first file that went
\* through all five stages and has its row
C14_Witness ==
    /\ i = 2
    /\ pc = "loop"
    /\ skipReasons = {"audio"}
    /\ stages = <<"probe", "extract">>
    /\ Len(DataRows) = 1
    /\ DataRows[1][2][1] = video_files[1]

\* ---- C15
\* the probe of the current file has returned (it did not raise)
ProbeReturned == HasRun("probe") /\ raisedAt # "probe"

\* C15: once the probe of a file has returned, the file is skipped exactly
\* when the value returned is 0: a duration the tool reported as 0 stops the
\* file after the probe, with no row, as the two failures the probe turns
\* into 0 do; any other value takes the file to the extraction; and the rows
\* of the output are those due for the names and the segments, whatever the
\* duration was.
C15_SkipExactlyOnZeroDuration ==
    /\ (ProbeReturned /\ duration.num = 0)
          => /\ stages = <<"probe">>
             /\ pc \in {"loop", "done"}
             /\ skipReasons = {"duration"}
             /\ CurrentRows = << >>
    /\ (ProbeReturned /\ duration.num # 0)
          => /\ probeKind = "ok"
             /\ "duration" \notin skipReasons
             /\ (stages = <<"probe">> => pc = "extract")
    /\ (ProbeReturned /\ probeKind \in {"CalledProcessError", "ValueError"})
          => duration.num = 0
    /\ HasRun("extract") => (ProbeReturned /\ duration.num # 0)
    /\ Opened => IsPrefix(DataRows, owed)

\* the second file, whose duration ffprobe reported as 0, has been skipped
\* after the probe; the first file has its row
C15_Witness ==
    /\ i = 2
    /\ probeKind = "ok"
    /\ duration.num = 0
    /\ pc = "loop"
    /\ stages = <<"probe">>
    /\ skipReasons = {"duration"}
    /\ Len(DataRows) = 1

====
